---- MODULE Spec2Model ----
(***************************************************************************)
(* Model of jw910731/course-bot: the NTNU course-site crawler              *)
(* (src/src/crawler.rs), the periodic checker (src/src/main.rs) and the    *)
(* bot commands (src/src/bot.rs).                                          *)
(*                                                                         *)
(* Two specifications share the definitions below:                         *)
(*   SpecManager  NtnuCrawlerManager::query with everything it calls       *)
(*                (NtnuCrawler::query, init, login, landing_page), one     *)
(*                step per HTTP round trip, the portal and the captcha     *)
(*                service answering nondeterministically;                  *)
(*   Spec         periodic_checker and the bot commands sharing the        *)
(*                watchlist store and the capacity-one trigger channel.    *)
(***************************************************************************)
EXTENDS Integers, Sequences, FiniteSets, TLC

\* ------------------------------------------------------------------ bounds
\* largest BOT_NTNU_RETRY (config.api_retry) explored
MaxApiRetry == 2
\* largest BOT_CAPTCHA_RETRY (config.captcha_retry) explored
MaxCaptchaRetry == 2
\* empty-body answers the portal gives within one NtnuCrawler::query call
MaxEmpty == 2
\* largest in-range seat count the portal reports
MaxCount == 2
\* longest candidate list the captcha service answers with
MaxCands == 2
\* force_update commands followed between two receptions of the trigger
MaxBurst == 2

\* tokio::sync::mpsc::channel::<()>(1)
ChanCap == 1

\* i32::MAX, the range of `let count: i32 = count_str.parse()?`
I32Max == 2147483647

VARIABLES
    max_retries,    \* NtnuCrawlerManager.max_retries = NtnuCrawler.max_retry = config.api_retry
    captcha_retry,  \* NtnuCrawler.captcha_retry = config.captcha_retry
    pc,             \* where the crawler task stands (the await it is suspended at)
    m_retries,      \* NtnuCrawlerManager::query: let mut retries
    m_err,          \* NtnuCrawlerManager::query: the e of the Err(e) arm, kept across init
    m_result,       \* value NtnuCrawlerManager::query returned
    q_retries,      \* NtnuCrawler::query: let mut retries
    q_result,       \* value NtnuCrawler::query returned
    i_result,       \* value NtnuCrawlerManager::init returned
    l_i,            \* NtnuCrawler::login: loop variable i
    l_retries,      \* NtnuCrawler::login: let mut retries
    jar,            \* cookie_store holds cookies
    \* history of the current NtnuCrawlerManager::query call
    mlog,           \* calls made by the manager and what each returned (at left out)
    posts,          \* query POSTs sent by the current NtnuCrawler::query call
    empties,        \* empty bodies received by the current NtnuCrawler::query call
    tfails,         \* send failures met by the current NtnuCrawler::query call
    sleeps,         \* 5 s sleeps finished by the current NtnuCrawler::query call
    l_fails,        \* attempts of the current login that ended without success:true
    l_ok,           \* the current login saw success:true
    magic,          \* NtnuCrawler::login: `let magic`, as the attempt (i + 1) that fetched it
    l_solved,       \* the last answer to POST /solve and what recognize made of it
    p_marked,       \* landing_page: the first of its responses whose body held the marker
    \* periodic_checker, the bot commands and what they share
    store,          \* bucket "user_courses": user id -> Vec of course ids
    chan,           \* messages pending in the mpsc channel of capacity 1
    spc,            \* where periodic_checker stands
    lists,          \* periodic_checker: `let lists`, the snapshot of the bucket
    uidx,           \* index in lists of the user being processed
    cidx,           \* index in that user's list of the course being queried
    success_list,   \* periodic_checker: `let mut success_list`
    current,        \* periodic_checker: `let mut current` of the write back block
    cmd,            \* the add_course / remove_course holding db.write(), with its locals
    \* history of the current pass
    ulog,           \* queries made for the current user and what each returned
    notes,          \* user id -> the notifications sent to the user in this pass
    dirty,          \* users whose stored list a command changed during the pass
    \* history of the trigger channel
    burst,          \* force_update commands since the last trigger was received
    fu_last         \* what the last of them got from try_send

configVars == <<max_retries, captcha_retry>>
mgrVars == <<m_retries, m_err, m_result>>
qVars == <<q_retries, q_result, posts, empties, tfails, sleeps>>
loginVars == <<l_i, l_retries, l_fails, l_ok>>
attemptVars == <<magic, l_solved, p_marked>>
crawlerVars == <<pc, mgrVars, qVars, loginVars, attemptVars, i_result, jar, mlog>>
schedVars == <<store, chan, spc, lists, uidx, cidx, success_list, current, cmd,
               ulog, notes, dirty, burst, fu_last>>
\* what no step of the crawler changes
otherVars == <<configVars, schedVars>>
vars == <<configVars, crawlerVars, schedVars>>

\* ----------------------------------------------------------------- values
\* anyhow::Result<i32> / Result<()>: at tells the errors of one NtnuCrawler::query
\* call apart (the number of the POST that failed)
Ok(v) == [ok |-> TRUE, val |-> v, err |-> "none", at |-> 0]
Err(e, n) == [ok |-> FALSE, val |-> 0, err |-> e, at |-> n]
\* anyhow::Result<bool>
OkB(b) == [ok |-> TRUE, val |-> b, err |-> "none", at |-> 0]
ErrB(e, n) == [ok |-> FALSE, val |-> FALSE, err |-> e, at |-> n]
\* an entry of mlog: the call and the value it returned
Entry(op, res) == [op |-> op, res |-> [res EXCEPT !.at = 0]]

\* --------------------------------------------------------- the environment
\* A response body as the code reads it: marker = text.contains(<the corruption marker>),
\* empty = text.is_empty(), match = the step's pattern matches (count_regex,
\* magic_regex, name_regex, "success:true", or infer::get knowing the image type),
\* n = the digits ([0-9]+) count_regex captures (<<>> when there is no capture).
NoBody == [marker |-> FALSE, empty |-> TRUE, match |-> FALSE, n |-> <<>>]
Bodies(ns) ==
    {b \in [marker : BOOLEAN, empty : BOOLEAN, match : BOOLEAN, n : ns] :
        /\ b.empty => (~b.marker /\ ~b.match)
        /\ ~b.match <=> b.n = <<>>}
\* What one request can end in: send() failing, an error status, the body not
\* arriving, or a body.
Responses(ns) ==
    {[t |-> x, body |-> NoBody] : x \in {"send_err", "status_err", "body_err"}}
    \cup {[t |-> "body", body |-> b] : b \in Bodies(ns)}
\* seat counts the portal prints, as digit strings: 0..MaxCount, one with a
\* leading zero, and 2147483648 (i32::MAX + 1)
CountStrings ==
    {<<d>> : d \in 0..MaxCount} \cup {<<0, 1>>, <<2, 1, 4, 7, 4, 8, 3, 6, 4, 8>>}
PlainResponses == Responses({<<>>, <<1>>})
QueryResponses == Responses(CountStrings \cup {<<>>})

\* the reqwest::Error of `.send().await?`, `.error_for_status()?`, `.text().await?`
HttpError(r) ==
    CASE r.t = "send_err" -> "ReqwestSend"
      [] r.t = "status_err" -> "ReqwestStatus"
      [] r.t = "body_err" -> "ReqwestBody"
      [] OTHER -> "none"

\* NtnuCrawlerError::check_response: TRUE when it returns Err(BrokenStateMachine)
CheckResponse(body) == body.marker

\* mutant: a failed send is taken for a corrupt session too
IsNtnuCrawlerError_OrSend(e) == e \in {"BrokenStateMachine", "ReqwestSend"}

\* mutant: every error taken for a corrupt session
IsNtnuCrawlerError_Any(e) == e # "none"

\* e.is::<NtnuCrawlerError>()
IsNtnuCrawlerError(e) == e = "BrokenStateMachine"

\* i32::from_str on a string of digits: digit by digit, checked_mul(10) then
\* checked_add(d); -1 stands for the overflow error
RECURSIVE ParseDigits(_, _, _)
ParseDigits(ds, i, acc) ==
    IF i > Len(ds) THEN acc
    ELSE IF acc > (I32Max - ds[i]) \div 10 THEN -1
    ELSE ParseDigits(ds, i + 1, acc * 10 + ds[i])

\* `let count: i32 = count_str.parse()?`
ParseCount(ds, at) ==
    LET v == ParseDigits(ds, 1, 0) IN
    IF v >= 0 THEN Ok(v) ELSE Err("ParseInt", at)

\* mutant: every count reported as available
Available_Always(n) == TRUE

\* `Ok(result) => break Ok(result != 0)`
Available(n) == n # 0

\* mutant: the budget is never consulted
ManagerExhausted_Never(retries, max) == FALSE
\* mutant: gives up one attempt early
ManagerExhausted_Ge(retries, max) == retries >= max

\* NtnuCrawlerManager::query: `if retries > self.max_retries`
ManagerExhausted(retries, max) == retries > max

\* mutant: one retry too many
TransportMayRetry_Le(retries, max) == retries <= max

\* NtnuCrawler::query: `if retries < self.max_retry`
TransportMayRetry(retries, max) == retries < max

\* NtnuCrawler::login: `if retries >= self.captcha_retry`
LoginMaxRetryReached(retries, max) == retries >= max

\* ------------------------------------------------------- CaptchaSolver
\* A candidate string of the recognizer: text is the string, cap what
\* calc_regex ([0-9])([+x\-])([0-9]) captures in it (m = it matches).
NoCap == [m |-> FALSE, a |-> 0, op |-> "", b |-> 0]
Cap(a, op, b) == [m |-> TRUE, a |-> a, op |-> op, b |-> b]
Candidates ==
    {[text |-> "asdf", cap |-> NoCap],
     [text |-> "lxzz", cap |-> NoCap],
     [text |-> "1+2", cap |-> Cap(1, "+", 2)],
     [text |-> "1-2", cap |-> Cap(1, "-", 2)],
     [text |-> "2x2", cap |-> Cap(2, "x", 2)]}
CandidateLists ==
    UNION {[1..k -> Candidates] : k \in 0..MaxCands}

\* an answer: a candidate verbatim, or the value of the expression
TextAnswer(t) == [num |-> FALSE, text |-> t, v |-> 0]
NumAnswer(v) == [num |-> TRUE, text |-> "", v |-> v]
CaptchaOk(a) == [ok |-> TRUE, ans |-> a, err |-> "none"]
CaptchaErr(e) == [ok |-> FALSE, ans |-> TextAnswer(""), err |-> e]

\* `return match op { "+" => .., "-" => .., "x" => .., _ => Err(InvalidErr) }`
Calc(cap) ==
    CASE cap.op = "+" -> CaptchaOk(NumAnswer(cap.a + cap.b))
      [] cap.op = "-" -> CaptchaOk(NumAnswer(cap.a - cap.b))
      [] cap.op = "x" -> CaptchaOk(NumAnswer(cap.a * cap.b))
      [] OTHER -> CaptchaErr("InvalidErr")

\* the `for resp in resps` loop from index i on, last = last_option ("" is None
\* only while has is FALSE)
RECURSIVE ProcessFrom(_, _, _, _)
ProcessFrom(resps, i, has, last) ==
    IF i > Len(resps)
    THEN IF has THEN CaptchaOk(TextAnswer(last)) ELSE CaptchaErr("InvalidErr")
    ELSE IF resps[i].cap.m
         THEN Calc(resps[i].cap)
         ELSE ProcessFrom(resps, i + 1, TRUE, resps[i].text)

\* mutant: the last candidate verbatim, whatever the list holds
Process_LastVerbatim(resps) ==
    IF resps = <<>> THEN CaptchaErr("InvalidErr")
    ELSE CaptchaOk(TextAnswer(resps[Len(resps)].text))

\* CaptchaSolver::process
Process(resps) == ProcessFrom(resps, 1, FALSE, "")

\* What POST /solve can end in: send() failing, a status other than 200, a body
\* that is not {"response": [string, ...]}, or a candidate list.
SolveResponses ==
    {[t |-> x, cands |-> <<>>] : x \in {"send_err", "status_err", "body_err"}}
    \cup {[t |-> "body", cands |-> c] : c \in CandidateLists}

\* CaptchaSolver::recognize after infer::get: the Result the await of it gives
Recognize(s) ==
    CASE s.t = "send_err" -> CaptchaErr("ReqwestSend")
      [] s.t = "status_err" -> CaptchaErr("HttpErr")
      [] s.t = "body_err" -> CaptchaErr("ReqwestDecode")
      [] OTHER -> Process(s.cands)

\* login's `Err(e) => match e.downcast()`: the three kinds that clear the jar and
\* go on with the next attempt
CaptchaRetryable(e) == e \in {"InvalidErr", "NoneErr", "ParseIntErr"}

\* no POST /solve answered yet in this attempt
NoSolve == [t |-> "none", cands |-> <<>>, res |-> CaptchaErr("none"), att |-> 0]

\* ------------------------------------------------- NtnuCrawler::query
\* What the body of one loop turn does with the answer r to POST number at of
\* the call: return a value, sleep and go round again, or panic (unwrap of a
\* count_regex that did not match).
QueryOutcome(r, retries, max, at) ==
    IF r.t = "send_err"
    THEN IF TransportMayRetry(retries, max)
         THEN [k |-> "sleep", v |-> Ok(0)]
         ELSE [k |-> "return", v |-> Err("ReqwestSend", at)]
    ELSE IF r.t # "body"
    THEN [k |-> "return", v |-> Err(HttpError(r), at)]
    ELSE IF CheckResponse(r.body)
    THEN [k |-> "return", v |-> Err("BrokenStateMachine", at)]
    ELSE IF ~r.body.empty
    THEN IF r.body.match
         THEN [k |-> "return", v |-> ParseCount(r.body.n, at)]
         ELSE [k |-> "panic", v |-> Ok(0)]
    ELSE [k |-> "sleep", v |-> Ok(0)]

\* the locals of a NtnuCrawler::query call that has not started or is over
NoQuery ==
    /\ q_retries' = 0
    /\ q_result' = Ok(0)
    /\ posts' = 0
    /\ empties' = 0
    /\ tfails' = 0
    /\ sleeps' = 0

\* the locals of a login that has not started or is over
NoLogin ==
    /\ l_i' = 0
    /\ l_retries' = 0
    /\ l_fails' = 0
    /\ l_ok' = FALSE
    /\ magic' = 0
    /\ l_solved' = NoSolve
    /\ p_marked' = 0

\* `let mut retries = 0; loop {` and the first POST
EnterCrawlerQuery ==
    /\ q_retries' = 0
    /\ q_result' = Ok(0)
    /\ posts' = 1
    /\ empties' = 0
    /\ tfails' = 0
    /\ sleeps' = 0
    /\ pc' = "q_post"

\* the POST to CourseQueryCtrl is answered; `break Ok(count)`, `break Err(..)`
\* and `?` hand the value to NtnuCrawlerManager::query's match
QueryRespond ==
    /\ pc = "q_post"
    /\ \E r \in QueryResponses :
        /\ (r.t = "body" /\ r.body.empty) => empties < MaxEmpty
        /\ LET out == QueryOutcome(r, q_retries, max_retries, posts) IN
            /\ empties' = IF r.t = "body" /\ r.body.empty THEN empties + 1 ELSE empties
            /\ tfails' = IF r.t = "send_err" THEN tfails + 1 ELSE tfails
            /\ jar' = (jar \/ r.t # "send_err")
            /\ CASE out.k = "return" ->
                      /\ q_result' = out.v
                      /\ mlog' = Append(mlog, Entry("query", out.v))
                      /\ pc' = "m_match"
                 [] out.k = "sleep" ->
                      /\ pc' = "q_sleep"
                      /\ UNCHANGED <<q_result, mlog>>
                 [] OTHER ->
                      /\ pc' = "crashed"
                      /\ UNCHANGED <<q_result, mlog>>
    /\ UNCHANGED <<otherVars, attemptVars, mgrVars, loginVars, i_result, q_retries, posts, sleeps>>

\* sleep(5 s) is over: `retries += 1` and the next turn of the loop sends the POST
QuerySleepDone ==
    /\ pc = "q_sleep"
    /\ q_retries' = q_retries + 1
    /\ sleeps' = sleeps + 1
    /\ posts' = posts + 1
    /\ pc' = "q_post"
    /\ UNCHANGED <<otherVars, attemptVars, mgrVars, loginVars, i_result, jar, mlog,
                   q_result, empties, tfails>>

\* ------------------------------------------ NtnuCrawlerManager::query
\* a caller enters query(course_id): `let mut retries = 0; loop {` and the first
\* self.crawler.query
ManagerQueryCall ==
    /\ pc = "idle"
    /\ m_retries' = 0
    /\ mlog' = <<>>
    /\ EnterCrawlerQuery
    /\ UNCHANGED <<otherVars, attemptVars, m_err, m_result, loginVars, i_result, jar>>

\* `match self.crawler.query(course_id).await`
ManagerMatch ==
    /\ pc = "m_match"
    /\ IF q_result.ok
       THEN /\ m_result' = OkB(Available(q_result.val))
            /\ pc' = "m_ret"
            /\ UNCHANGED m_err
       ELSE IF IsNtnuCrawlerError(q_result.err)
       THEN /\ m_err' = q_result
            /\ pc' = "i_start"
            /\ UNCHANGED m_result
       ELSE /\ m_result' = ErrB(q_result.err, q_result.at)
            /\ pc' = "m_ret"
            /\ UNCHANGED m_err
    /\ NoQuery
    /\ UNCHANGED <<otherVars, attemptVars, m_retries, loginVars, i_result, jar, mlog>>

\* init() came back: `self.init().await?; if retries > self.max_retries { break
\* Err(e.into()) }`, else `retries += 1` and the next self.crawler.query
ManagerInitReturn ==
    /\ pc = "m_init_ret"
    /\ IF ~i_result.ok
       THEN /\ m_result' = ErrB(i_result.err, i_result.at)
            /\ pc' = "m_ret"
            /\ UNCHANGED <<m_retries, qVars>>
       ELSE IF ManagerExhausted(m_retries, max_retries)
       THEN /\ m_result' = ErrB(m_err.err, m_err.at)
            /\ pc' = "m_ret"
            /\ UNCHANGED <<m_retries, qVars>>
       ELSE /\ m_retries' = m_retries + 1
            /\ EnterCrawlerQuery
            /\ UNCHANGED m_result
    /\ i_result' = Ok(0)
    /\ NoLogin
    /\ UNCHANGED <<otherVars, m_err, jar, mlog>>

\* the caller takes the value query returned; the call's locals are gone
ManagerQueryReturn ==
    /\ pc = "m_ret"
    /\ pc' = "idle"
    /\ m_retries' = 0
    /\ m_err' = Ok(0)
    /\ m_result' = OkB(FALSE)
    /\ mlog' = <<>>
    /\ UNCHANGED <<otherVars, attemptVars, qVars, loginVars, i_result, jar>>

\* ------------------------------------------- NtnuCrawlerManager::init
\* mutant: the error of init is dropped and the loop goes on
InitReturn_Swallow(res) ==
    /\ i_result' = Ok(0)
    /\ mlog' = Append(mlog, Entry("init", res))
    /\ pc' = "m_init_ret"

\* init returns res to NtnuCrawlerManager::query
InitReturn(res) ==
    /\ i_result' = res
    /\ mlog' = Append(mlog, Entry("init", res))
    /\ pc' = "m_init_ret"

\* login returns Err(e) and init's `?` passes it on
LoginFail(res) ==
    /\ i_result' = res
    /\ mlog' = mlog \o <<Entry("login", res), Entry("init", res)>>
    /\ pc' = "m_init_ret"

\* `self.crawler.clear()` and the entry of login: `let mut retries = 0`
InitStart ==
    /\ pc = "i_start"
    /\ jar' = FALSE
    /\ NoLogin
    /\ pc' = "l_head"
    /\ UNCHANGED <<otherVars, mgrVars, qVars, i_result, mlog>>

\* ------------------------------------------------- NtnuCrawler::login
\* `for i in 0..self.captcha_retry { retries = i;` and the GET of login_magic
LoginHead ==
    /\ pc = "l_head"
    /\ IF l_i < captcha_retry
       THEN /\ l_retries' = l_i
            /\ pc' = "l_magic"
       ELSE /\ pc' = "l_exit"
            /\ UNCHANGED l_retries
    /\ UNCHANGED <<otherVars, attemptVars, mgrVars, qVars, i_result, jar, mlog, l_i, l_fails, l_ok>>

\* mutant: the next attempt keeps the cookies of the failed one
LoginNextAttempt_KeepJar ==
    /\ jar' = jar
    /\ l_fails' = l_fails + 1
    /\ l_i' = l_i + 1
    /\ pc' = "l_head"

\* an attempt ended without success: `self.cookie_store.lock().unwrap().clear()`
\* and the next turn of the for loop
LoginNextAttempt ==
    /\ jar' = FALSE
    /\ l_fails' = l_fails + 1
    /\ l_i' = l_i + 1
    /\ pc' = "l_head"

\* What login does with the answer r to a GET whose body it reads, checks and
\* then unwraps a pattern on (login_magic: magic_regex; captcha: infer::get)
FetchOutcome(r) ==
    IF r.t # "body" THEN [k |-> "fail", e |-> HttpError(r)]
    ELSE IF CheckResponse(r.body) THEN [k |-> "fail", e |-> "BrokenStateMachine"]
    ELSE IF ~r.body.match THEN [k |-> "panic", e |-> "none"]
    ELSE [k |-> "next", e |-> "none"]

LoginFetchStep(next) ==
    /\ \E r \in PlainResponses :
        LET out == FetchOutcome(r) IN
        /\ jar' = (jar \/ r.t # "send_err")
        /\ magic' = IF next = "l_image" /\ out.k = "next" THEN l_i + 1 ELSE magic
        /\ CASE out.k = "fail" -> LoginFail(Err(out.e, 0))
             [] out.k = "panic" -> pc' = "crashed" /\ UNCHANGED <<i_result, mlog>>
             [] OTHER -> pc' = next /\ UNCHANGED <<i_result, mlog>>
    /\ UNCHANGED <<otherVars, mgrVars, qVars, loginVars, l_solved, p_marked>>

\* login_magic: the GET of LoginCheckCtrl is answered; captcha sends GET RandImage
LoginMagicRespond ==
    /\ pc = "l_magic"
    /\ LoginFetchStep("l_image")

\* captcha: the GET of RandImage is answered; recognize sends POST /solve
LoginImageRespond ==
    /\ pc = "l_image"
    /\ LoginFetchStep("l_solve")

\* recognize: POST /solve is answered; on a challenge the login form is posted
LoginSolveRespond ==
    /\ pc = "l_solve"
    /\ \E s \in SolveResponses :
        LET c == Recognize(s) IN
        /\ l_solved' = [t |-> s.t, cands |-> s.cands, res |-> c, att |-> l_i]
        /\ IF c.ok
           THEN /\ pc' = "l_submit"
                /\ UNCHANGED <<i_result, mlog, jar, l_fails, l_i>>
           ELSE IF CaptchaRetryable(c.err)
           THEN /\ LoginNextAttempt
                /\ UNCHANGED <<i_result, mlog>>
           ELSE /\ LoginFail(Err(c.err, 0))
                /\ UNCHANGED <<jar, l_fails, l_i>>
    /\ UNCHANGED <<otherVars, mgrVars, qVars, l_retries, l_ok, magic, p_marked>>

\* the POST of the login form is answered: `if result.contains("success:true")
\* { break; } else { clear }`
LoginSubmitRespond ==
    /\ pc = "l_submit"
    /\ \E r \in PlainResponses :
        IF r.t # "body"
        THEN /\ LoginFail(Err(HttpError(r), 0))
             /\ jar' = (jar \/ r.t # "send_err")
             /\ UNCHANGED <<l_fails, l_i, l_ok>>
        ELSE IF r.body.match
        THEN /\ pc' = "l_exit"
             /\ l_ok' = TRUE
             /\ jar' = TRUE
             /\ UNCHANGED <<i_result, mlog, l_fails, l_i>>
        ELSE /\ LoginNextAttempt
             /\ UNCHANGED <<i_result, mlog, l_ok>>
    /\ l_solved' = NoSolve
    /\ UNCHANGED <<otherVars, mgrVars, qVars, l_retries, magic, p_marked>>

\* after the for loop: `if retries >= self.captcha_retry { bail!("login max retry
\* reached") } Ok(())`, and on Ok init goes on to landing_page's first GET
LoginExit ==
    /\ pc = "l_exit"
    /\ IF LoginMaxRetryReached(l_retries, captcha_retry)
       THEN LoginFail(Err("LoginMaxRetry", 0))
       ELSE /\ mlog' = Append(mlog, Entry("login", Ok(0)))
            /\ pc' = "p_index"
            /\ UNCHANGED i_result
    /\ UNCHANGED <<otherVars, attemptVars, mgrVars, qVars, loginVars, jar>>

\* ------------------------------------------ NtnuCrawler::landing_page
\* a GET whose body is read and checked: where the call goes on the answer r
\* ("next", "fail", "panic"); needs says whether a pattern is unwrapped on it
LandingOutcome(r, needs) ==
    IF r.t # "body" THEN [k |-> "fail", e |-> HttpError(r)]
    ELSE IF CheckResponse(r.body) THEN [k |-> "fail", e |-> "BrokenStateMachine"]
    ELSE IF needs /\ ~r.body.match THEN [k |-> "panic", e |-> "none"]
    ELSE [k |-> "next", e |-> "none"]

\* the confirmation POST: `.send().await?.error_for_status()?;`, body unread
ConfirmOutcome(r) ==
    IF r.t \in {"send_err", "status_err"} THEN [k |-> "fail", e |-> HttpError(r)]
    ELSE [k |-> "next", e |-> "none"]

\* the number k of the response r when it is the first whose body holds the marker
FirstMarked(cur, r, k) ==
    IF cur = 0 /\ r.t = "body" /\ r.body.marker THEN k ELSE cur

LandingStep(here, out, next) ==
    /\ pc = here
    /\ CASE out.k = "fail" -> InitReturn(Err(out.e, 0))
         [] out.k = "panic" -> pc' = "crashed" /\ UNCHANGED <<i_result, mlog>>
         [] OTHER ->
              IF next = "done"
              THEN InitReturn(Ok(0))
              ELSE pc' = next /\ UNCHANGED <<i_result, mlog>>
    /\ UNCHANGED <<otherVars, mgrVars, qVars, loginVars, magic, l_solved>>

\* GET IndexCtrl is answered (name_regex is unwrapped on it)
LandingIndexRespond ==
    \E r \in PlainResponses :
        /\ LandingStep("p_index", LandingOutcome(r, TRUE), "p_confirm")
        /\ jar' = (jar \/ r.t # "send_err")
        /\ p_marked' = FirstMarked(p_marked, r, 1)

\* POST LoginCtrl is answered
LandingConfirmRespond ==
    \E r \in PlainResponses :
        /\ LandingStep("p_confirm", ConfirmOutcome(r), "p_enroll")
        /\ jar' = (jar \/ r.t # "send_err")
        /\ p_marked' = FirstMarked(p_marked, r, 2)

\* GET EnrollCtrl is answered
LandingEnrollRespond ==
    \E r \in PlainResponses :
        /\ LandingStep("p_enroll", LandingOutcome(r, FALSE), "p_courseq")
        /\ jar' = (jar \/ r.t # "send_err")
        /\ p_marked' = FirstMarked(p_marked, r, 3)

\* GET CourseQueryCtrl is answered
LandingCourseQueryRespond ==
    \E r \in PlainResponses :
        /\ LandingStep("p_courseq", LandingOutcome(r, FALSE), "done")
        /\ jar' = (jar \/ r.t # "send_err")
        /\ p_marked' = FirstMarked(p_marked, r, 4)

\* ------------------------------------------------ the watchlist store
\* user ids, in the order bucket.iter() yields their keys
UserOrder == <<"1", "2">>
Users == {UserOrder[i] : i \in 1..Len(UserOrder)}
\* course ids, in the order of String's Ord (what Vec::sort uses)
CourseOrder == <<"101", "202">>
Courses == {CourseOrder[i] : i \in 1..Len(CourseOrder)}
\* what a user may type as course id: the ids above and one that is not digits
NotDigits == "20x"
TypedIds == Courses \cup {NotDigits}
\* `course_id.chars().all(|x| x.is_digit(10))`
AllDigits(id) == id # NotDigits

Rank(c) == CHOOSE i \in 1..Len(CourseOrder) : CourseOrder[i] = c
Contains(list, c) == \E i \in 1..Len(list) : list[i] = c
Elems(list) == {list[i] : i \in 1..Len(list)}

\* Vec::sort: insertion of x in the sorted s
RECURSIVE Insert(_, _)
Insert(s, x) ==
    IF s = <<>> THEN <<x>>
    ELSE IF Rank(x) < Rank(Head(s)) THEN <<x>> \o s
    ELSE <<Head(s)>> \o Insert(Tail(s), x)
RECURSIVE Sort(_)
Sort(s) == IF s = <<>> THEN <<>> ELSE Insert(Sort(Tail(s)), Head(s))

\* Vec::dedup: drops an element equal to the one before it
RECURSIVE Dedup(_)
Dedup(s) ==
    IF Len(s) <= 1 THEN s
    ELSE IF s[1] = s[2] THEN Dedup(Tail(s))
    ELSE <<s[1]>> \o Dedup(Tail(s))

\* mutant: the write back filters the list read for the snapshot
RetainNotIn_Snapshot(cur, success) ==
    SelectSeq(lists[uidx].list, LAMBDA id : ~Contains(success, id))
\* mutant: the write back reads the list again when it writes
RetainNotIn_Reread(cur, success) ==
    SelectSeq(IF lists[uidx].user \in DOMAIN store THEN store[lists[uidx].user] ELSE <<>>,
              LAMBDA id : ~Contains(success, id))
\* mutant: the write back keeps the available courses
RetainNotIn_Keep(cur, success) == cur

\* `current.retain(|id| !success_list.contains(&id.as_str()))`
RetainNotIn(cur, success) == SelectSeq(cur, LAMBDA id : ~Contains(success, id))
\* `current.retain(|id| *id != course_id)`
RetainNot(cur, c) == SelectSeq(cur, LAMBDA id : id # c)

\* `bucket.get(&user_id.to_string()).unwrap().map(|v| v.0).unwrap_or(Vec::new())`
Get(st, u) == IF u \in DOMAIN st THEN st[u] ELSE <<>>
\* `bucket.set(&user_id.to_string(), &Msgpack(current))`
Set(st, u, l) == [x \in (DOMAIN st) \cup {u} |-> IF x = u THEN l ELSE st[x]]

\* `bucket.iter()...collect::<Vec<_>>()`: the pairs (key, value) in key order
Snapshot(st) ==
    LET keys == SelectSeq(UserOrder, LAMBDA u : u \in DOMAIN st) IN
    [i \in 1..Len(keys) |-> [user |-> keys[i], list |-> st[keys[i]]]]

\* the lists the commands and the checker leave in the store: sorted, no repeats
StoredLists == {l \in UNION {[1..k -> Courses] : k \in 0..Len(CourseOrder)} : Dedup(Sort(l)) = l}
Stores == UNION {[S -> StoredLists] : S \in SUBSET Users}

\* --------------------------------------------------------- bot commands
\* a pass of periodic_checker has taken its snapshot and has not left the select!
InPass == spc \notin {"start", "sleeping", "crashed"}

\* no command is between its db.write() and the end of its block
NoCmd == [op |-> "none", user |-> "", course |-> "", cur |-> <<>>, new |-> <<>>]

\* mutant: db.write() does not wait for the command that holds the lock
LockFree_Always(c) == TRUE

\* `db.read().await` / `db.write().await` of periodic_checker return: no command
\* holds the write lock
LockFree(c) == c = NoCmd

\* mutant: add_course without the dedup
Added_NoDedup(cur, c) == Sort(Append(cur, c))

\* add_course: `current.push(course_id.clone()); current.sort(); current.dedup();`
Added(cur, c) == Dedup(Sort(Append(cur, c)))

\* add_course up to the bucket.set: the id is validated, the write lock taken,
\* the list read and changed; an id that is not digits is answered and nothing
\* else happens
AddCourse ==
    /\ spc # "crashed"
    /\ cmd = NoCmd
    /\ \E u \in Users, c \in TypedIds :
        cmd' = IF AllDigits(c)
               THEN [op |-> "add", user |-> u, course |-> c,
                     cur |-> Get(store, u), new |-> Added(Get(store, u), c)]
               ELSE NoCmd
    /\ UNCHANGED <<configVars, crawlerVars, store, chan, spc, lists, uidx, cidx,
                   success_list, current, ulog, notes, dirty, burst, fu_last>>

\* remove_course up to the bucket.set
RemoveCourse ==
    /\ spc # "crashed"
    /\ cmd = NoCmd
    /\ \E u \in Users, c \in TypedIds :
        cmd' = IF AllDigits(c)
               THEN [op |-> "remove", user |-> u, course |-> c,
                     cur |-> Get(store, u), new |-> RetainNot(Get(store, u), c)]
               ELSE NoCmd
    /\ UNCHANGED <<configVars, crawlerVars, store, chan, spc, lists, uidx, cidx,
                   success_list, current, ulog, notes, dirty, burst, fu_last>>

\* `bucket.set(&user_id.to_string(), &Msgpack(current))?` of add_course and of
\* remove_course; the block ends and the write lock is released
CommandSet ==
    /\ spc # "crashed"
    /\ cmd # NoCmd
    /\ store' = Set(store, cmd.user, cmd.new)
    /\ dirty' = IF InPass /\ store' # store THEN dirty \cup {cmd.user} ELSE dirty
    /\ cmd' = NoCmd
    /\ UNCHANGED <<configVars, crawlerVars, chan, spc, lists, uidx, cidx,
                   success_list, current, ulog, notes, burst, fu_last>>

\* mutant: the channel takes every message
TrySend_Unbounded(n) == "Ok"

\* `ctx.data().sender.try_send(())` on a channel holding n messages
TrySend(n) == IF n < ChanCap THEN "Ok" ELSE "Full"
\* force_update's match on it: Full and Ok go on to Ok(()), another Err is returned
ForceUpdateResult(r) == IF r \in {"Ok", "Full"} THEN "ok" ELSE "err"

\* force_update
ForceUpdate ==
    /\ spc # "crashed"
    /\ burst < MaxBurst
    /\ LET r == TrySend(chan) IN
        /\ chan' = IF r = "Ok" THEN chan + 1 ELSE chan
        /\ fu_last' = ForceUpdateResult(r)
    /\ burst' = burst + 1
    /\ UNCHANGED <<configVars, crawlerVars, current, cmd, store, spc, lists, uidx, cidx,
                   success_list, ulog, notes, dirty>>

\* ------------------------------------------------------ periodic_checker
\* What `ntnu_crawler.query(&course_id).await` can give periodic_checker: Ok(n != 0)
\* for a seat count n, an error, or a panic inside the crawler.
CheckOutcomes ==
    {[k |-> "ret", res |-> OkB(Available(n)), n |-> n] : n \in 0..MaxCount}
    \cup {[k |-> "ret", res |-> ErrB("error", 0), n |-> 0],
          [k |-> "panic", res |-> ErrB("panic", 0), n |-> 0]}

\* mutant: a failed query counts as a seat found
PushSuccess_OnError(success, c, res) ==
    IF res.ok => res.val THEN Append(success, c) ELSE success

\* `Result::Ok(q) => { if q { success_list.push(course_id); } }`, Err: warn!
PushSuccess(success, c, res) ==
    IF res.ok /\ res.val THEN Append(success, c) ELSE success

CurUser == lists[uidx].user
CurList == lists[uidx].list

\* `let lists = { db.read().await ... }`
SchedSnapshot ==
    /\ spc = "start"
    /\ LockFree(cmd)
    /\ lists' = Snapshot(store)
    /\ uidx' = 0
    /\ cidx' = 0
    /\ success_list' = <<>>
    /\ ulog' = <<>>
    /\ notes' = [u \in Users |-> <<>>]
    /\ dirty' = {}
    /\ spc' = "next"
    /\ UNCHANGED <<configVars, crawlerVars, current, cmd, store, chan, burst, fu_last>>

\* `for (user_id, list) in lists {` and create_dm_channel is sent; after the last
\* user the select! is entered
SchedNextUser ==
    /\ spc = "next"
    /\ IF uidx < Len(lists)
       THEN /\ uidx' = uidx + 1
            /\ spc' = "dm"
       ELSE /\ spc' = "wait"
            /\ UNCHANGED uidx
    /\ cidx' = 0
    /\ success_list' = <<>>
    /\ ulog' = <<>>
    /\ UNCHANGED <<configVars, crawlerVars, current, cmd, store, chan, lists, notes, dirty,
                   burst, fu_last>>

\* create_dm_channel(..).await.unwrap(); start_typing; `let mut success_list =
\* Vec::new(); for ref course_id in &list {` and the first query is awaited
SchedDmDone ==
    /\ spc = "dm"
    /\ \E ok \in BOOLEAN :
        IF ~ok THEN spc' = "crashed" /\ UNCHANGED cidx
        ELSE IF CurList = <<>> THEN spc' = "writeback" /\ UNCHANGED cidx
        ELSE spc' = "query" /\ cidx' = 1
    /\ UNCHANGED <<configVars, crawlerVars, current, cmd, store, chan, lists, uidx,
                   success_list, ulog, notes, dirty, burst, fu_last>>

\* `match ntnu_crawler.query(&course_id).await` and the next turn of the for loop
SchedQueryDone ==
    /\ spc = "query"
    /\ \E o \in CheckOutcomes :
        IF o.k = "panic"
        THEN /\ spc' = "crashed"
             /\ UNCHANGED <<success_list, ulog, cidx>>
        ELSE /\ success_list' = PushSuccess(success_list, CurList[cidx], o.res)
             /\ ulog' = Append(ulog, [course |-> CurList[cidx], ok |-> o.res.ok, n |-> o.n])
             /\ IF cidx < Len(CurList)
                THEN cidx' = cidx + 1 /\ spc' = "query"
                ELSE UNCHANGED cidx /\ spc' = "writeback"
    /\ UNCHANGED <<configVars, crawlerVars, current, cmd, store, chan, lists, uidx, notes,
                   dirty, burst, fu_last>>

\* the write back block up to its re-read. The guard of `db.write().await` is a
\* temporary of the `let bucket = ...;` statement: it is dropped at the end of
\* that statement, and bucket.get follows without an await.
SchedWriteBackGet ==
    /\ spc = "writeback"
    /\ LockFree(cmd)
    /\ current' = Get(store, CurUser)
    /\ spc' = "wb_set"
    /\ UNCHANGED <<configVars, crawlerVars, store, chan, lists, uidx, cidx,
                   success_list, cmd, ulog, notes, dirty, burst, fu_last>>

\* `current.retain(..); bucket.set(..)` with no lock held; then the DM is sent if
\* there is one
SchedWriteBackSet ==
    /\ spc = "wb_set"
    /\ store' = Set(store, CurUser, RetainNotIn(current, success_list))
    /\ current' = <<>>
    /\ spc' = IF Len(success_list) > 0 THEN "notify" ELSE "next"
    /\ UNCHANGED <<configVars, crawlerVars, chan, lists, uidx, cidx,
                   success_list, cmd, ulog, notes, dirty, burst, fu_last>>

\* `user_id.direct_message(..).await`: sent, or an Err that is only logged
SchedNotifyDone ==
    /\ spc = "notify"
    /\ notes' = [notes EXCEPT ![CurUser] = Append(@, success_list)]
    /\ spc' = "next"
    /\ UNCHANGED <<configVars, crawlerVars, current, cmd, store, chan, lists, uidx, cidx,
                   success_list, ulog, dirty, burst, fu_last>>

\* mutant: the select! does not see the pending trigger
TriggerReady_Never(n) == FALSE

\* `update_receiver.recv()` is ready at once when the channel holds a message
TriggerReady(n) == n > 0

\* the first poll of `tokio::select!`: sleep(180 s) is pending, recv() is ready
\* when a trigger is in the channel
SchedWaitPoll ==
    /\ spc = "wait"
    /\ IF TriggerReady(chan)
       THEN /\ chan' = chan - 1
            /\ burst' = 0
            /\ fu_last' = "none"
            /\ spc' = "start"
       ELSE /\ spc' = "sleeping"
            /\ UNCHANGED <<chan, burst, fu_last>>
    /\ lists' = <<>>
    /\ uidx' = 0
    /\ notes' = [u \in Users |-> <<>>]
    /\ dirty' = {}
    /\ UNCHANGED <<configVars, crawlerVars, current, cmd, store, cidx, success_list, ulog>>

\* `_ = sleep(Duration::from_secs(180)) => ()`
SchedTimer ==
    /\ spc = "sleeping"
    /\ spc' = "start"
    /\ UNCHANGED <<configVars, crawlerVars, current, cmd, store, chan, lists, uidx, cidx,
                   success_list, ulog, notes, dirty, burst, fu_last>>

\* `_ = update_receiver.recv() => ()`
SchedTriggerRecv ==
    /\ spc = "sleeping"
    /\ chan > 0
    /\ chan' = chan - 1
    /\ burst' = 0
    /\ fu_last' = "none"
    /\ spc' = "start"
    /\ UNCHANGED <<configVars, crawlerVars, current, cmd, store, lists, uidx, cidx,
                   success_list, ulog, notes, dirty>>

\* main: the channel is created empty and periodic_checker starts its first pass
InitSched ==
    /\ chan = 0
    /\ spc = "start"
    /\ lists = <<>>
    /\ uidx = 0
    /\ cidx = 0
    /\ success_list = <<>>
    /\ current = <<>>
    /\ cmd = NoCmd
    /\ ulog = <<>>
    /\ notes = [u \in Users |-> <<>>]
    /\ dirty = {}
    /\ burst = 0
    /\ fu_last = "none"

\* --------------------------------------------------- SpecManager
\* NtnuCrawlerManager::new: nothing is sent, the cookie store is empty
InitCrawler ==
    /\ pc = "idle"
    /\ m_retries = 0
    /\ m_err = Ok(0)
    /\ m_result = OkB(FALSE)
    /\ q_retries = 0
    /\ q_result = Ok(0)
    /\ i_result = Ok(0)
    /\ l_i = 0
    /\ l_retries = 0
    /\ jar = FALSE
    /\ mlog = <<>>
    /\ posts = 0
    /\ empties = 0
    /\ tfails = 0
    /\ sleeps = 0
    /\ l_fails = 0
    /\ l_ok = FALSE
    /\ magic = 0
    /\ l_solved = NoSolve
    /\ p_marked = 0

\* Config::init_from_env: BOT_NTNU_RETRY and BOT_CAPTCHA_RETRY
InitManager ==
    /\ max_retries \in 0..MaxApiRetry
    /\ captcha_retry \in 0..MaxCaptchaRetry
    /\ InitCrawler
    /\ InitSched
    /\ store = <<>>

NextManager ==
    \/ ManagerQueryCall
    \/ QueryRespond
    \/ QuerySleepDone
    \/ ManagerMatch
    \/ InitStart
    \/ LoginHead
    \/ LoginMagicRespond
    \/ LoginImageRespond
    \/ LoginSolveRespond
    \/ LoginSubmitRespond
    \/ LoginExit
    \/ LandingIndexRespond
    \/ LandingConfirmRespond
    \/ LandingEnrollRespond
    \/ LandingCourseQueryRespond
    \/ ManagerInitReturn
    \/ ManagerQueryReturn

SpecManager == InitManager /\ [][NextManager]_vars

\* ------------------------------------------------------------ Spec
\* the process after main has built the store, the channel and the bot: the
\* database holds any watchlists earlier runs left
Init ==
    /\ max_retries = 0
    /\ captcha_retry = 0
    /\ InitCrawler
    /\ InitSched
    /\ store \in Stores

Next ==
    \/ SchedSnapshot
    \/ SchedNextUser
    \/ SchedDmDone
    \/ SchedQueryDone
    \/ SchedWriteBackGet
    \/ SchedWriteBackSet
    \/ SchedNotifyDone
    \/ SchedWaitPoll
    \/ SchedTimer
    \/ SchedTriggerRecv
    \/ AddCourse
    \/ RemoveCourse
    \/ CommandSet
    \/ ForceUpdate

Spec == Init /\ [][Next]_vars

\* ------------------------------------------------ claims, SpecManager
Last(s) == s[Len(s)]
QueryLog == SelectSeq(mlog, LAMBDA e : e.op = "query")
InitLog == SelectSeq(mlog, LAMBDA e : e.op = "init")
LoginLog == SelectSeq(mlog, LAMBDA e : e.op = "login")
Corrupt(res) == ~res.ok /\ res.err = "BrokenStateMachine"
\* every self.crawler.query of the call so far found the session corrupt and
\* every init so far succeeded
OnlyCorruption ==
    /\ \A i \in 1..Len(QueryLog) : Corrupt(QueryLog[i].res)
    /\ \A i \in 1..Len(InitLog) : InitLog[i].res.ok
\* login has returned to init and its locals are still those of that login
LoginReturned ==
    /\ pc \in {"p_index", "p_confirm", "p_enroll", "p_courseq", "m_init_ret"}
    /\ LoginLog # <<>>

\* C1: with captcha_retry >= 1, a login all of whose captcha_retry attempts ended
\* without "success:true" returns the error "login max retry reached".
C1_LoginExhaustedFails ==
    (LoginReturned /\ captcha_retry >= 1 /\ l_fails = captcha_retry /\ ~l_ok)
        => (~Last(LoginLog).res.ok /\ Last(LoginLog).res.err = "LoginMaxRetry")

\* C2: while every self.crawler.query of a NtnuCrawlerManager::query call fails
\* with BrokenStateMachine and every init succeeds, the call makes at most
\* max_retries + 2 queries; when it returns it has made exactly that many, each
\* followed by an init, and it returns the BrokenStateMachine error.
C2_AlwaysCorruptTerminates ==
    OnlyCorruption =>
        /\ Len(QueryLog) <= max_retries + 2
        /\ pc = "m_ret" =>
            /\ Len(QueryLog) = max_retries + 2
            /\ Len(InitLog) = Len(QueryLog)
            /\ \A i \in 1..Len(mlog) :
                mlog[i].op = "query" =>
                    /\ i + 2 <= Len(mlog)
                    /\ mlog[i + 1].op = "login"
                    /\ mlog[i + 2].op = "init"
            /\ ~m_result.ok
            /\ m_result.err = "BrokenStateMachine"
C2_Witness ==
    /\ pc = "m_ret"
    /\ OnlyCorruption
    /\ max_retries >= 1
    /\ Len(QueryLog) = max_retries + 2

\* C3: when the first self.crawler.query fails with BrokenStateMachine and the
\* init after it succeeds, a second query is made; when that one returns the
\* count n the call returns Ok(n != 0) after exactly two queries and one init.
C3_CorruptOnceThenCount ==
    pc = "m_ret" =>
        /\ (/\ Len(QueryLog) >= 1
            /\ Corrupt(QueryLog[1].res)
            /\ Len(InitLog) >= 1
            /\ InitLog[1].res.ok) => Len(QueryLog) >= 2
        /\ (/\ Len(QueryLog) >= 2
            /\ Corrupt(QueryLog[1].res)
            /\ QueryLog[2].res.ok) =>
                /\ Len(QueryLog) = 2
                /\ Len(InitLog) = 1
                /\ InitLog[1].res.ok
                /\ m_result.ok
                /\ m_result.val = (QueryLog[2].res.val # 0)
C3_Witness ==
    /\ pc = "m_ret"
    /\ Len(QueryLog) = 2
    /\ Corrupt(QueryLog[1].res)
    /\ QueryLog[2].res.ok
    /\ QueryLog[2].res.val = 2
    /\ max_retries = 0

\* C4: when NtnuCrawlerManager::query returns Ok(b), the last thing it did was a
\* self.crawler.query that returned a count n, and b = (n != 0).
C4_SuccessHasCount ==
    (pc = "m_ret" /\ m_result.ok) =>
        /\ mlog # <<>>
        /\ Last(mlog).op = "query"
        /\ Last(mlog).res.ok
        /\ m_result.val = (Last(mlog).res.val # 0)
C4_Witness ==
    /\ pc = "m_ret"
    /\ m_result.ok
    /\ ~m_result.val
    /\ Len(QueryLog) = 2

\* C5: a self.crawler.query that fails with an error other than
\* BrokenStateMachine is the last call the manager makes (no init, no further
\* query), and the manager returns that error.
C5_OtherErrorPropagates ==
    \A i \in 1..Len(mlog) :
        (mlog[i].op = "query" /\ ~mlog[i].res.ok /\ ~Corrupt(mlog[i].res)) =>
            /\ i = Len(mlog)
            /\ pc \in {"m_match", "m_ret"}
            /\ pc = "m_ret" => (~m_result.ok /\ m_result.err = mlog[i].res.err)
C5_Witness ==
    /\ pc = "m_ret"
    /\ Len(mlog) = 1
    /\ mlog[1].res.err = "ReqwestStatus"
    /\ max_retries >= 1

\* a NtnuCrawler::query call has just returned the error of a failed send
QueryGaveUp == pc = "m_match" /\ ~q_result.ok /\ q_result.err = "ReqwestSend"

\* C9: a NtnuCrawler::query call that gives up on a send failure has retried
\* max_retries send failures before it, however many empty bodies it received.
C9_EmptyKeepsBudget ==
    QueryGaveUp => tfails = max_retries + 1

\* C10: a NtnuCrawler::query call all of whose POSTs fail in send() sends
\* max_retries + 1 POSTs, sleeps max_retries times, and returns the error of
\* the last POST.
C10_AllSendsFail ==
    /\ (pc \in {"q_post", "q_sleep"} /\ tfails = posts) => posts <= max_retries + 1
    /\ (QueryGaveUp /\ empties = 0) =>
        /\ posts = max_retries + 1
        /\ tfails = posts
        /\ sleeps = max_retries
        /\ q_result.at = posts
C10_Witness ==
    /\ QueryGaveUp
    /\ empties = 0
    /\ max_retries >= 1
    /\ posts = max_retries + 1

\* C11: a NtnuCrawler::query call returns the error of an error status on its
\* POST only when its retries are used up (retries >= max_retry); before that
\* the status error leads to a sleep and another POST.
C11_StatusErrorRetried ==
    (pc = "m_match" /\ ~q_result.ok /\ q_result.err = "ReqwestStatus")
        => q_retries >= max_retries

\* C12: once the body of one of landing_page's four responses held the marker,
\* no later step is sent: the call has failed and init returned
\* BrokenStateMachine.
C12_MarkerAbortsLanding ==
    p_marked # 0 =>
        /\ pc = "m_init_ret"
        /\ ~i_result.ok
        /\ i_result.err = "BrokenStateMachine"

\* the task panicked on the unwrap of a pattern that did not match: count_regex
\* in query, name_regex in landing_page, magic_regex in login_magic
ExtractionPanic ==
    /\ pc = "crashed"
    /\ \/ posts >= 1
       \/ (mlog # <<>> /\ Last(mlog).op = "login")
       \/ magic # l_i + 1

\* C13: a pattern that does not match a body without marker gives its caller an
\* error value; the task running the crawler never stops on it.
C13_ExtractionFailureReturned == ~ExtractionPanic

\* the candidates calc_regex matches, and the value the captures stand for
Matching(cands) == {i \in 1..Len(cands) : cands[i].cap.m}
Least(S) == CHOOSE i \in S : \A j \in S : i <= j
Arith(cap) ==
    IF cap.op = "+" THEN cap.a + cap.b
    ELSE IF cap.op = "-" THEN cap.a - cap.b
    ELSE cap.a * cap.b

\* C14: for a candidate list that is not empty recognize succeeds; when a
\* candidate matches digit-operator-digit the answer is the value of the first
\* such candidate, wherever it stands, and otherwise the last candidate verbatim.
C14_CandidateSelection ==
    (l_solved.t = "body" /\ l_solved.cands # <<>>) =>
        LET cands == l_solved.cands
            M == Matching(cands)
        IN  /\ l_solved.res.ok
            /\ M # {} => l_solved.res.ans = NumAnswer(Arith(cands[Least(M)].cap))
            /\ M = {} => l_solved.res.ans = TextAnswer(Last(cands).text)
C14_Witness ==
    /\ pc = "l_submit"
    /\ Len(l_solved.cands) = 2
    /\ l_solved.cands[1].text = "lxzz"
    /\ l_solved.cands[2].text = "1-2"
    /\ l_solved.res.ans = NumAnswer(-1)

\* C15: on an empty candidate list recognize fails with NoneErr ("no viable
\* value") and with no other kind.
C15_EmptyListNoViable ==
    (l_solved.t = "body" /\ l_solved.cands = <<>>) =>
        (~l_solved.res.ok /\ l_solved.res.err = "NoneErr")

\* the last POST /solve of the login ended in a failure of recognize
SolveFailed == l_solved.t # "none" /\ ~l_solved.res.ok
\* the failures the claim has login try again on: no viable answer (an empty
\* list), a response that is not a list of candidate strings, a parse error
TryAgainFailure ==
    \/ l_solved.t = "body"
    \/ l_solved.t = "body_err"

\* C19: after a failure of recognize of the try-again kinds the jar is cleared
\* and the next attempt has begun; after a status or transport failure login
\* has ended with that error and init has returned it.
C19_CaptchaFailureHandling ==
    SolveFailed =>
        IF TryAgainFailure
        THEN /\ l_i = l_solved.att + 1
             /\ pc = "l_head" => ~jar
        ELSE /\ l_i = l_solved.att
             /\ pc = "m_init_ret"
             /\ ~i_result.ok
             /\ i_result.err = l_solved.res.err

\* C20: an attempt of login starts with an empty cookie jar, and the token it
\* posts is the one this attempt fetched.
C20_FreshAttempt ==
    /\ pc \in {"l_head", "l_magic"} => ~jar
    /\ pc \in {"l_image", "l_solve", "l_submit"} => magic = l_i + 1
C20_Witness ==
    /\ pc = "l_submit"
    /\ l_i = 1
    /\ l_fails = 1
    /\ magic = 2

\* C21: within one NtnuCrawlerManager::query call self.crawler.query is called
\* at most max_retries + 1 times and init at most max_retries + 1 times.
C21_RecoveryBounded ==
    /\ Len(QueryLog) <= max_retries + 1
    /\ Len(InitLog) <= max_retries + 1

\* C22: an init that returned an error is the last call the manager makes; the
\* manager returns that error, and its retries counter is what it was when init
\* was called (one less than the queries made), whatever budget is left.
C22_InitErrorEndsQuery ==
    \A i \in 1..Len(mlog) :
        (mlog[i].op = "init" /\ ~mlog[i].res.ok) =>
            /\ i = Len(mlog)
            /\ pc \in {"m_init_ret", "m_ret"}
            /\ m_retries = Len(QueryLog) - 1
            /\ pc = "m_ret" =>
                /\ ~m_result.ok
                /\ m_result.err = mlog[i].res.err
C22_Witness ==
    /\ pc = "m_ret"
    /\ max_retries = 2
    /\ Len(QueryLog) = 1
    /\ Len(mlog) = 3
    /\ mlog[2].res.ok
    /\ Corrupt(mlog[3].res)
    /\ Corrupt(m_result)

\* init is running: in login, or in landing_page
InLogin == pc \in {"i_start", "l_head", "l_magic", "l_image", "l_solve", "l_submit", "l_exit"}
InLanding == pc \in {"p_index", "p_confirm", "p_enroll", "p_courseq"}

\* C23: no login is made before the first query of a call, and every init
\* (login, then landing_page) comes right after a self.crawler.query that
\* returned BrokenStateMachine.
C23_InitOnlyAfterCorruption ==
    /\ InLogin => (mlog # <<>> /\ Last(mlog).op = "query" /\ Corrupt(Last(mlog).res))
    /\ InLanding =>
        /\ Len(mlog) >= 2
        /\ Last(mlog).op = "login"
        /\ mlog[Len(mlog) - 1].op = "query"
    /\ \A i \in 1..Len(mlog) :
        /\ mlog[i].op = "login" =>
            /\ i >= 2
            /\ mlog[i - 1].op = "query"
            /\ Corrupt(mlog[i - 1].res)
        /\ mlog[i].op = "init" => (i >= 3 /\ mlog[i - 1].op = "login")
    /\ mlog # <<>> => mlog[1].op = "query"
C23_Witness ==
    /\ pc = "l_magic"
    /\ Len(mlog) = 4
    /\ mlog[3].res.ok
    /\ Corrupt(mlog[4].res)

\* ------------------------------------------- Spec's view of the manager
\* What SpecManager's NtnuCrawlerManager::query ends in is one of the outcomes
\* periodic_checker draws from in Spec.
ManagerEndsInCheckOutcome ==
    /\ pc = "m_ret" =>
        \E o \in CheckOutcomes :
            /\ o.k = "ret"
            /\ o.res.ok = m_result.ok
            /\ m_result.ok => (o.res.val = m_result.val /\ o.n = Last(mlog).res.val)
    /\ pc = "crashed" => \E o \in CheckOutcomes : o.k = "panic"

\* ------------------------------------------------------- claims, Spec
\* periodic_checker has finished the user lists[uidx]: written back and notified
UserDone == spc = "next" /\ uidx >= 1
\* the courses of the current user whose query returned a count other than 0
AvailNow == {ulog[i].course : i \in {j \in 1..Len(ulog) : ulog[j].ok /\ ulog[j].n # 0}}
\* the courses of the current user whose query returned an error
FailedNow == {ulog[i].course : i \in {j \in 1..Len(ulog) : ~ulog[j].ok}}

\* C6: when the checker has finished a user whose stored list no command
\* changed during the pass, the stored list is the snapshot list without the
\* courses whose count was not 0, and the user was sent one notification naming
\* exactly those courses if there are any, none otherwise; at the end of the
\* pass this holds of every user of the snapshot.
C6_PassResult ==
    /\ (UserDone /\ CurUser \notin dirty) =>
        /\ Get(store, CurUser) = SelectSeq(CurList, LAMBDA c : c \notin AvailNow)
        /\ AvailNow = {} => notes[CurUser] = <<>>
        /\ AvailNow # {} =>
            /\ Len(notes[CurUser]) = 1
            /\ Elems(notes[CurUser][1]) = AvailNow
    /\ spc = "wait" =>
        \A i \in 1..Len(lists) :
            LET u == lists[i].user
                gone == Elems(lists[i].list) \ Elems(Get(store, u))
            IN  /\ Len(notes[u]) <= 1
                /\ u \notin dirty =>
                    /\ Elems(Get(store, u)) \subseteq Elems(lists[i].list)
                    /\ gone = {} => notes[u] = <<>>
                    /\ gone # {} => (Len(notes[u]) = 1 /\ Elems(notes[u][1]) = gone)
C6_Witness ==
    /\ UserDone
    /\ dirty = {}
    /\ CurList = <<"101", "202">>
    /\ ulog = <<[course |-> "101", ok |-> TRUE, n |-> 0],
                [course |-> "202", ok |-> TRUE, n |-> 2]>>
    /\ Get(store, CurUser) = <<"101">>
    /\ notes[CurUser] = <<(<<"202">>)>>

\* C7: the channel never holds more than one trigger; while force_update has
\* been issued since the last reception exactly one trigger is pending and the
\* command returned Ok(()), and once it is received none is pending.
C7_TriggerCoalesced ==
    /\ chan <= 1
    /\ burst >= 1 => (chan = 1 /\ fu_last = "ok")
    /\ burst = 0 => chan = 0
C7_Witness ==
    /\ burst >= 2
    /\ chan = 1
    /\ fu_last = "ok"
    /\ spc = "query"

\* C8: the courses of a user are queried once each, in the order of the list,
\* whatever the queries return; a course whose query failed is not in
\* success_list, is still in the stored list after the write back (no command
\* having changed the list), and the pass ends only after the last user.
C8_FailureSkipsCourse ==
    /\ (uidx >= 1 /\ spc \in {"query", "writeback", "wb_set", "notify", "next"}) =>
        /\ Len(ulog) <= Len(CurList)
        /\ \A i \in 1..Len(ulog) : ulog[i].course = CurList[i]
        /\ \A c \in FailedNow : ~Contains(success_list, c)
    /\ spc = "query" => cidx = Len(ulog) + 1
    /\ (spc \in {"writeback", "wb_set", "notify"} \/ UserDone) => Len(ulog) = Len(CurList)
    /\ ((spc = "notify" \/ UserDone) /\ CurUser \notin dirty) =>
        \A c \in FailedNow : Contains(Get(store, CurUser), c)
    /\ spc = "wait" => uidx = Len(lists)
C8_Witness ==
    /\ UserDone
    /\ uidx = 1
    /\ Len(lists) = 2
    /\ Len(ulog) = 2
    /\ ~ulog[1].ok
    /\ ulog[2].ok /\ ulog[2].n # 0
    /\ Get(store, CurUser) = <<CurList[1]>>
    /\ notes[CurUser] = <<(<<CurList[2]>>)>>

\* the checker has re-read the user's list and has not yet written it back
BetweenRereadAndSet == spc = "wb_set"
\* the step in which the write back's bucket.set happens
WriteBackSets == spc = "wb_set" /\ spc' # "wb_set"

\* C16 as stated: a holder of the store lock does one read or one write under
\* it (a command that has read under its lock does not also write under it),
\* and the write back stores the re-read list without the available courses
\* whatever was committed since the re-read.
C16_LockPerOperation ==
    [][/\ cmd # NoCmd => Get(store', cmd.user) = Get(store, cmd.user)
       /\ WriteBackSets =>
            Get(store', CurUser) = SelectSeq(current, LAMBDA c : c \notin AvailNow)]_vars

\* C16, amended: add_course and remove_course hold the write lock across their
\* read and their write, the checker holds no lock between its re-read and its
\* set; the set stores the re-read list without the available courses whatever
\* the commands committed since the re-read, and a command that read before
\* the set writes what it computed from its own read.
C16_LastWriterWins ==
    [][/\ WriteBackSets =>
            Get(store', CurUser) = SelectSeq(current, LAMBDA c : c \notin AvailNow)
       /\ (cmd # NoCmd /\ cmd' = NoCmd) => Get(store', cmd.user) = cmd.new]_vars
C16_Witness ==
    /\ BetweenRereadAndSet
    /\ cmd = NoCmd
    /\ CurUser \in dirty
    /\ current = <<"101">>
    /\ Get(store, CurUser) = <<"101", "202">>
    /\ success_list = <<"101">>

\* C17: add_course of an id the list it read holds writes that list back
\* unchanged (so a second add of the same id to an empty list leaves one
\* entry), add_course to an empty list writes the one id, and remove_course of
\* an id the list does not hold writes the list back unchanged.
C17_AddIdempotentRemoveNoop ==
    /\ (cmd.op = "add" /\ Contains(cmd.cur, cmd.course)) => cmd.new = cmd.cur
    /\ (cmd.op = "add" /\ cmd.cur = <<>>) => cmd.new = <<cmd.course>>
    /\ (cmd.op = "remove" /\ ~Contains(cmd.cur, cmd.course)) => cmd.new = cmd.cur
C17_Witness ==
    /\ cmd.op = "add"
    /\ cmd.course = "101"
    /\ cmd.cur = <<"101">>
    /\ cmd.new = <<"101">>

\* C18: the write back re-reads the stored list, so what the commands committed
\* after the snapshot and before the re-read is kept: a course added in that
\* time is in the list the set stores, one removed in that time is not.
C18_WriteBackFromStore ==
    [][/\ (spc = "writeback" /\ spc' = "wb_set") => current' = Get(store, CurUser)
       /\ WriteBackSets =>
            \A c \in Courses :
                /\ (c \in Elems(current) /\ c \notin Elems(CurList))
                        => c \in Elems(Get(store', CurUser))
                /\ c \notin Elems(current) => c \notin Elems(Get(store', CurUser))]_vars
C18_Witness ==
    /\ BetweenRereadAndSet
    /\ CurList = <<"101">>
    /\ current = <<"202">>
    /\ success_list = <<"101">>

\* C24: a write back for a user stores a subset of the list it re-read, leaves
\* out only courses found available for that user in this pass, and changes no
\* other user's list; the set of a command brings a course into a stored list
\* only when the command is add_course (between the read and the set of a
\* command only the checker writes the store, so a course the set of a
\* remove_course brings back is one the checker removed).
C24_SchedulerOnlyRemoves ==
    [][/\ WriteBackSets =>
            /\ Elems(Get(store', CurUser)) \subseteq Elems(current)
            /\ (Elems(current) \ Elems(Get(store', CurUser))) \subseteq AvailNow
            /\ \A u \in Users \ {CurUser} : Get(store', u) = Get(store, u)
       /\ (cmd # NoCmd /\ cmd' = NoCmd) =>
            \A c \in Courses :
                (c \notin Elems(Get(store, cmd.user)) /\ c \in Elems(Get(store', cmd.user)))
                    => cmd.op = "add"]_vars

\* C25: a trigger leaves the channel only when a wait of the checker ends, one
\* at a time, and the next pass starts; a wait that finds a trigger pending ends
\* at once with it (the 180 s sleep is not awaited); a force_update issued
\* during a pass leaves a trigger pending.
C25_TriggerKeptForNextWait ==
    [][/\ chan' < chan =>
            /\ spc \in {"wait", "sleeping"}
            /\ spc' = "start"
            /\ chan' = chan - 1
       /\ (spc = "wait" /\ chan > 0 /\ spc' # "wait") =>
            /\ spc' = "start"
            /\ chan' = chan - 1
       /\ (InPass /\ burst' = burst + 1) => chan' = 1]_vars
C25_Witness ==
    /\ spc = "wait"
    /\ chan = 1
    /\ burst >= 1
    /\ uidx = 2
    /\ Len(lists) = 2

====
